---- MODULE Spec2Model ----
(***************************************************************************)
(* A model of the authorization and credential lifecycle of                *)
(* google-workspace-mcp (src/auth.ts): the OAuth client factory, the token *)
(* file, the refresh listener of getAuthenticatedClient and the callback   *)
(* listener of startAuthFlow.  Every await of the source is a step         *)
(* boundary: an action runs the code from one await to the next.           *)
(***************************************************************************)
EXTENDS Integers, Sequences, FiniteSets, TLC

\* ------------------------------------------------------------- bounds
\* Connection attempts made to the callback listeners in one run.
MaxAttempts == 2
\* 'tokens' events emitted by authenticated clients in one run.
MaxEvents == 2

\* Connection attempts in a run with two concurrent flows.
MaxAttemptsTwo == 1

\* The calls of startAuthFlow in one run of the process.
FlowIds == {1, 2}
\* A run in which startAuthFlow is called once.
SingleFlow == {1}

\* ------------------------------------------------------------- values
\* url.searchParams.get(name) of a parameter that is not in the query.
NoParam == "<null>"
\* A key that is not in an object (reading it gives undefined).
Missing == "<undefined>"
\* process.env.X of a variable that is not set.
NoEnv == "<unset>"

EnvVals == {NoEnv, "", "set"}
StateTokens == {"s1", "s2"}
NoTok == "<none>"
Ports == {"p1", "p2"}
NoPort == "<none>"
Codes == {"c1", "c2"}

\* The credential record: an open mapping, here over two keys.
Fields == {"access_token", "refresh_token"}
EmptyRec == [k \in Fields |-> Missing]
Rec(a, r) == [k \in Fields |-> IF k = "access_token" THEN a ELSE r]

\* Stringify that writes the access token alone.
StringifyAccessOnly(tokens) ==
    {<<k, tokens[k]>> : k \in {x \in {"access_token"} : tokens[x] # Missing}}

\* JSON.stringify(tokens, null, 2): the members of the object, one per
\* key that is defined.
Stringify(tokens) ==
    {<<k, tokens[k]>> : k \in {x \in Fields : tokens[x] # Missing}}

\* JSON.parse of such a text: the object with these members.
Parse(text) ==
    [k \in Fields |-> IF \E m \in text : m[1] = k
                      THEN (CHOOSE m \in text : m[1] = k)[2]
                      ELSE Missing]

\* The token file: absent, or one that cannot be read (no permission, or
\* a directory at that path), or text that is the JSON of a record, or
\* text that JSON.parse rejects (the empty file included).
NoFile == [kind |-> "absent", text |-> {}]
UnreadableFile == [kind |-> "unreadable", text |-> {}]
EmptyFile == [kind |-> "empty", text |-> {}]
GarbageFile == [kind |-> "garbage", text |-> {}]
JsonFile(rec) == [kind |-> "json", text |-> Stringify(rec)]

\* Permission bits of the token file and of its directory; NoMode: there
\* is no such file or directory.
NoMode == "<none>"
FileModes == {"0600", "0644"}
DirModes == {"0700", "0755"}

\* The request targets the listener is sent: req.url.
Url(p, s, c) == [path |-> p, state |-> s, code |-> c]
ReqUrls ==
    {Url("/callback", s, c) : s \in {NoParam} \cup StateTokens,
                              c \in {NoParam, ""} \cup Codes}
    \cup {Url("/other", NoParam, NoParam)}
    \cup {Url("/other", s, "c1") : s \in StateTokens}
    \cup {Url("//", NoParam, NoParam)}

VARIABLES
    env,          \* process.env: GOOGLE_CLIENT_ID, GOOGLE_CLIENT_SECRET
    tokensFile,   \* what TOKENS_PATH holds
    fileMode,     \* the permission bits of TOKENS_PATH
    dirMode,      \* the permission bits of dirname(TOKENS_PATH)
    crashed,      \* the errors thrown outside any caller (uncaught)
    promise,      \* per flow: the promise startAuthFlow returned
    listening,    \* per flow: server.listening
    port,         \* per flow: server.address().port
    stateTok,     \* per flow: const state
    authUrl,      \* per flow: what the promise resolved with
    handler,      \* per flow: server.on('request', ...) was registered
    timer,        \* per flow: the setTimeout handle
    closeCalls,   \* per flow: calls of server.close()
    closed,       \* per flow: the 'close' event was emitted
    reqs,         \* per flow: the requests the server received, in order
    attempts,     \* connection attempts made so far
    refused,      \* per flow: attempts no listener accepted
    clients,      \* the clients getAuthenticatedClient returned: their credentials
    events,       \* the 'tokens' events of authenticated clients
    removals,     \* the times the user removed the token file
    call,         \* the call of the module a caller is awaiting, or awaited last
    prev,         \* the call the caller made before that one
    auth,         \* the invocation of the authorize tool
    tool,         \* the invocation of a Workspace operation
    remote        \* what the Google APIs hold: a Drive file, a Calendar event

fsVars == <<tokensFile, fileMode, dirMode>>
flowVars == <<promise, listening, port, stateTok, authUrl, handler, timer,
              closeCalls, closed, reqs, attempts, refused>>
refreshVars == <<clients, events, removals>>
apiVars == <<call, prev>>
toolVars == <<auth, tool, remote>>
vars == <<env, crashed, fsVars, flowVars, refreshVars, apiVars, toolVars>>

\* ------------------------------------------------ createOAuthClient
\* ConfigMissing that tests the client identifier alone.
ConfigMissingIdOnly(e) == e.clientId \in {NoEnv, ""}

\* if (!clientId || !clientSecret) throw new Error(...)
ConfigMissing(e) ==
    e.clientId \in {NoEnv, ""} \/ e.clientSecret \in {NoEnv, ""}

ConfigErrorMessage == "GOOGLE_CLIENT_ID and GOOGLE_CLIENT_SECRET env vars are required"

\* ------------------------------------------------ the token file
\* loadTokens: the parsed record, or null on any read or parse failure.
Null == [ok |-> FALSE, rec |-> EmptyRec]
Some(rec) == [ok |-> TRUE, rec |-> rec]
LoadTokens(file) ==
    IF file.kind = "json" THEN Some(Parse(file.text)) ELSE Null

\* JSON.stringify(tokens, null, 2) written to TOKENS_PATH.
WrittenFile(tokens) == [kind |-> "json", text |-> Stringify(tokens)]

\* What a failed fs.writeFile leaves: the file as it was (the open failed)
\* or truncated (the open with flag 'w' succeeded and the write failed).
FailedWrite(file) ==
    IF file.kind = "unreadable" THEN {file} ELSE {file, EmptyFile}

\* The mode option of mkdir and of writeFile is used when the directory
\* or the file is created; one that exists keeps its bits.
ModeAfter(old, option) == IF old = NoMode THEN option ELSE old

\* await fs.mkdir(dirname(TOKENS_PATH), { recursive: true, mode: 0o700 })
\* resolves.
Mkdir ==
    /\ dirMode' = ModeAfter(dirMode, "0700")
    /\ UNCHANGED <<tokensFile, fileMode>>

\* await fs.writeFile(TOKENS_PATH, text, { mode: 0o600 }) resolves.
WriteFile(tokens) ==
    /\ tokensFile.kind # "unreadable"
    /\ tokensFile' = WrittenFile(tokens)
    /\ fileMode' = ModeAfter(fileMode, "0600")
    /\ UNCHANGED dirMode

\* await fs.writeFile(...) rejects.
WriteFileFails ==
    /\ tokensFile' \in FailedWrite(tokensFile)
    /\ fileMode' = IF tokensFile'.kind = "absent" THEN NoMode
                   ELSE ModeAfter(fileMode, "0600")
    /\ UNCHANGED dirMode

\* ------------------------------------------------ calls of the module
\* The client createOAuthClient builds: new google.auth.OAuth2(clientId,
\* clientSecret, redirectUri), and the credentials set on it.
NoClient ==
    [id |-> NoEnv, secret |-> NoEnv, redirect |-> Missing,
     credentials |-> EmptyRec]

\* A call of an exported function by a caller that awaits it: the
\* function, where it stands, its argument, how it returned (ret), the
\* record or the client it returned, the message of the error it threw
\* and the fs calls it has awaited, in order, each with its outcome.
Idle ==
    [op |-> "none", pc |-> "done", arg |-> EmptyRec, ret |-> "none",
     val |-> EmptyRec, client |-> NoClient, msg |-> "", fs |-> <<>>]

\* What is kept of the call made before.
Summary(c) == [op |-> c.op, arg |-> c.arg, ret |-> c.ret]

\* ------------------------------------------------ the tools
\* The fields of EventUpdate.
EventFields == {"summary", "description", "location", "start", "end"}
\* start and end are sent as { dateTime: value }, the others as given.
Kind(k) == IF k \in {"start", "end"} THEN "dateTime" ELSE "plain"
NoUpdates == [k \in EventFields |-> Missing]

\* The arguments of an operation that the model follows: maxResults (and
\* whether it was passed) and the updates of updateEvent.
NoArgs == [hasMax |-> FALSE, maxResults |-> 0, updates |-> NoUpdates]

\* What the Google APIs hold: one Drive file, live, in the trash or
\* deleted for good, and the fields of one Calendar event.
RemoteInit ==
    [file |-> "live", event |-> [k \in EventFields |-> <<Kind(k), "old">>]]

\* No invocation of the authorize tool: where its handler stands, what
\* getAuthenticatedClient gave it, the calls of startAuthFlow it made and
\* the flow of the last one, and what it answered.
AuthIdle ==
    [pc |-> "idle", got |-> "none", started |-> 0, flow |-> 0,
     result |-> "none", url |-> [state |-> NoTok, port |-> NoPort]]

\* No invocation of a Workspace operation: the function, where it
\* stands, what getAuthenticatedClient gave it, its arguments, the
\* requests it sent to the remote API with their outcomes, its result
\* and message, and the remote state when it was called.
ToolIdle ==
    [op |-> "none", pc |-> "done", got |-> "none", args |-> NoArgs,
     log |-> <<>>, result |-> "none", msg |-> "", before |-> RemoteInit]

NoTools == auth = AuthIdle /\ tool = ToolIdle /\ remote = RemoteInit

\* ------------------------------------------------ the callback listener
\* client.getToken(code) resolved: the provider's tokens for that code.
TokensFor(code) == Rec("at_" \o code, "rt_" \o code)

\* new URL(req.url, base) throws on a target that is no URL.
UrlThrows(u) == u.path = "//"

\* StateMismatch with a request that carries no state let through.
StateMismatchLoose(u, f) == u.state # NoParam /\ u.state # stateTok[f]

\* url.searchParams.get('state') !== state
StateMismatch(u, f) == u.state # stateTok[f]

\* NoCode testing for null only: an empty code passes.
NoCodeNullOnly(u) == u.code = NoParam

\* !code
NoCode(u) == u.code \in {NoParam, ""}

\* secHeaders, spread into the headers of every res.writeHead.
SecHeaders ==
    {<<"X-Content-Type-Options", "nosniff">>,
     <<"Content-Security-Policy", "default-src 'none'">>}

\* res.writeHead(status, { 'Content-Type': type, ...secHeaders })
Headers(type) == {<<"Content-Type", type>>} \cup SecHeaders

\* A handled request: its target, where its handler stands, the status,
\* headers and body it answered (0: none yet), its calls of client.getToken and
\* saveTokens, the tokens the exchange gave it and the record the file
\* held when its write resolved.
Req(u, pc, status, body, exch) ==
    [url |-> u, pc |-> pc, status |-> status, body |-> body, exch |-> exch,
     saves |-> 0, tokens |-> EmptyRec, persisted |-> EmptyRec,
     headers |-> IF status = 0 THEN {} ELSE Headers("text/plain")]

\* The handler of 'request' up to its first await or its return.
Handle(u, f) ==
    IF UrlThrows(u) THEN Req(u, "threw", 0, "", 0)
    ELSE IF u.path # "/callback" THEN Req(u, "done", 404, "Not found", 0)
    ELSE IF StateMismatch(u, f)
        THEN Req(u, "done", 403, "Invalid state parameter", 0)
    ELSE IF NoCode(u)
        THEN Req(u, "done", 400, "Missing authorization code", 0)
    ELSE Req(u, "exchange", 0, "", 1)

Alive == crashed = {}

\* server.close(): stops listening; counted.
ServerClose(f) ==
    /\ closeCalls' = [closeCalls EXCEPT ![f] = @ + 1]
    /\ listening' = [listening EXCEPT ![f] = FALSE]

\* startAuthFlow up to the return of the promise: createServer, listen,
\* on('error', reject).
StartAuthFlow(f) ==
    /\ Alive
    /\ promise[f] = "none"
    /\ \A g \in FlowIds : g < f => promise[g] # "none"
    /\ promise' = [promise EXCEPT ![f] = "pending"]
    /\ UNCHANGED <<env, crashed, fsVars, listening, port, stateTok, authUrl,
                   handler, timer, closeCalls, closed, reqs, attempts,
                   refused, refreshVars, apiVars, toolVars>>

\* The bind fails: 'error' is emitted and rejects the promise.
BindError(f) ==
    /\ Alive
    /\ promise[f] = "pending" /\ port[f] = NoPort
    /\ promise' = [promise EXCEPT ![f] = "rejected"]
    /\ UNCHANGED <<env, crashed, fsVars, listening, port, stateTok, authUrl,
                   handler, timer, closeCalls, closed, reqs, attempts,
                   refused, refreshVars, apiVars, toolVars>>

FreePorts == Ports \ {port[g] : g \in {h \in FlowIds : listening[h]}}
FreshTokens == StateTokens \ {stateTok[g] : g \in FlowIds}

\* The listen callback with the client configuration missing:
\* createOAuthClient throws inside the callback, outside any caller.
ListenThrow(f, p) ==
    /\ Alive
    /\ promise[f] = "pending" /\ port[f] = NoPort
    /\ p \in FreePorts
    /\ ConfigMissing(env)
    /\ listening' = [listening EXCEPT ![f] = TRUE]
    /\ port' = [port EXCEPT ![f] = p]
    /\ crashed' = crashed \cup {"config"}
    /\ UNCHANGED <<env, fsVars, promise, stateTok, authUrl, handler, timer,
                   closeCalls, closed, reqs, attempts, refused, refreshVars, apiVars,
                   toolVars>>

\* ListenOk resolving the promise before the handler and the timer are
\* set up.
ListenOkResolveFirst(f, p, tok) ==
    /\ Alive
    /\ promise[f] = "pending" /\ port[f] = NoPort
    /\ p \in FreePorts
    /\ tok \in FreshTokens
    /\ ~ConfigMissing(env)
    /\ listening' = [listening EXCEPT ![f] = TRUE]
    /\ port' = [port EXCEPT ![f] = p]
    /\ stateTok' = [stateTok EXCEPT ![f] = tok]
    /\ authUrl' = [authUrl EXCEPT ![f] = [state |-> tok, port |-> p]]
    /\ promise' = [promise EXCEPT ![f] = "resolved"]
    /\ UNCHANGED <<env, crashed, fsVars, handler, timer, closeCalls, closed,
                   reqs, attempts, refused, refreshVars, apiVars, toolVars>>

\* The listen callback: the consent URL with a fresh state token, the
\* request handler, the timer, and the promise resolved with the URL.
ListenOk(f, p, tok) ==
    /\ Alive
    /\ promise[f] = "pending" /\ port[f] = NoPort
    /\ p \in FreePorts
    /\ tok \in FreshTokens
    /\ ~ConfigMissing(env)
    /\ listening' = [listening EXCEPT ![f] = TRUE]
    /\ port' = [port EXCEPT ![f] = p]
    /\ stateTok' = [stateTok EXCEPT ![f] = tok]
    /\ handler' = [handler EXCEPT ![f] = TRUE]
    /\ timer' = [timer EXCEPT ![f] = "armed"]
    /\ authUrl' = [authUrl EXCEPT ![f] = [state |-> tok, port |-> p]]
    /\ promise' = [promise EXCEPT ![f] = "resolved"]
    /\ UNCHANGED <<env, crashed, fsVars, closeCalls, closed, reqs, attempts,
                   refused, refreshVars, apiVars, toolVars>>

\* A request reaches the listener: the handler runs to its first await.
Receive(f, u) ==
    /\ Alive
    /\ listening[f] /\ handler[f]
    /\ attempts < MaxAttempts
    /\ attempts' = attempts + 1
    /\ reqs' = [reqs EXCEPT ![f] = Append(@, Handle(u, f))]
    /\ crashed' = IF UrlThrows(u) THEN crashed \cup {"url"} ELSE crashed
    /\ UNCHANGED <<env, fsVars, promise, listening, port, stateTok, authUrl,
                   handler, timer, closeCalls, closed, refused, refreshVars, apiVars,
                   toolVars>>

\* A connection attempt to the port of a listener that has stopped
\* listening: refused, no handler runs.
Refuse(f, u) ==
    /\ Alive
    /\ port[f] # NoPort /\ ~listening[f]
    /\ attempts < MaxAttempts
    /\ attempts' = attempts + 1
    /\ refused' = [refused EXCEPT ![f] = @ + 1]
    /\ UNCHANGED <<env, crashed, fsVars, promise, listening, port, stateTok,
                   authUrl, handler, timer, closeCalls, closed, reqs, refreshVars, apiVars,
                   toolVars>>

\* Request i of flow f after a step of its handler.
SetReq(f, i, r) == reqs' = [reqs EXCEPT ![f][i] = r]

\* Fail500 without the finally block.
Fail500NoClose(f, i) ==
    /\ SetReq(f, i, [reqs[f][i] EXCEPT
           !.pc = "done", !.status = 500,
           !.headers = Headers("text/plain"),
           !.body = "Authorization failed. Please try again."])
    /\ UNCHANGED <<closeCalls, listening>>

\* catch { 500 } finally { server.close() }
Fail500(f, i) ==
    /\ SetReq(f, i, [reqs[f][i] EXCEPT
           !.pc = "done", !.status = 500,
           !.headers = Headers("text/plain"),
           !.body = "Authorization failed. Please try again."])
    /\ ServerClose(f)

\* ExchangeOk answering 200 without saving the tokens.
ExchangeOkNoSave(f, i) ==
    /\ Alive
    /\ i \in DOMAIN reqs[f] /\ reqs[f][i].pc = "exchange"
    /\ SetReq(f, i, [reqs[f][i] EXCEPT
           !.pc = "done", !.status = 200,
           !.headers = Headers("text/html"),
           !.tokens = TokensFor(reqs[f][i].url.code)])
    /\ ServerClose(f)
    /\ UNCHANGED <<env, crashed, fsVars, promise, port, stateTok, authUrl,
                   handler, timer, closed, attempts, refused, refreshVars, apiVars,
                   toolVars>>

\* await client.getToken(code) resolves; saveTokens(tokens) is called and
\* runs to its await of fs.mkdir.
ExchangeOk(f, i) ==
    /\ Alive
    /\ i \in DOMAIN reqs[f] /\ reqs[f][i].pc = "exchange"
    /\ SetReq(f, i, [reqs[f][i] EXCEPT !.pc = "mkdir", !.saves = @ + 1,
                                      !.tokens = TokensFor(reqs[f][i].url.code)])
    /\ UNCHANGED <<env, crashed, fsVars, promise, listening, port, stateTok,
                   authUrl, handler, timer, closeCalls, closed, attempts,
                   refused, refreshVars, apiVars, toolVars>>

\* await client.getToken(code) rejects.
ExchangeFail(f, i) ==
    /\ Alive
    /\ i \in DOMAIN reqs[f] /\ reqs[f][i].pc = "exchange"
    /\ Fail500(f, i)
    /\ UNCHANGED <<env, crashed, fsVars, promise, port, stateTok, authUrl,
                   handler, timer, closed, attempts, refused, refreshVars, apiVars,
                   toolVars>>

\* saveTokens: await fs.mkdir resolves; fs.writeFile is called.
SaveMkdirOk(f, i) ==
    /\ Alive
    /\ i \in DOMAIN reqs[f] /\ reqs[f][i].pc = "mkdir"
    /\ SetReq(f, i, [reqs[f][i] EXCEPT !.pc = "write"])
    /\ Mkdir
    /\ UNCHANGED <<env, crashed, promise, listening, port, stateTok,
                   authUrl, handler, timer, closeCalls, closed, attempts,
                   refused, refreshVars, apiVars, toolVars>>

\* saveTokens: await fs.mkdir rejects; saveTokens rejects.
SaveMkdirFail(f, i) ==
    /\ Alive
    /\ i \in DOMAIN reqs[f] /\ reqs[f][i].pc = "mkdir"
    /\ Fail500(f, i)
    /\ UNCHANGED <<env, crashed, fsVars, promise, port, stateTok, authUrl,
                   handler, timer, closed, attempts, refused, refreshVars, apiVars,
                   toolVars>>

\* saveTokens: await fs.writeFile resolves; then the 200 page and
\* finally server.close().
SaveWriteOk(f, i) ==
    /\ Alive
    /\ i \in DOMAIN reqs[f] /\ reqs[f][i].pc = "write"
    /\ WriteFile(reqs[f][i].tokens)
    /\ SetReq(f, i, [reqs[f][i] EXCEPT
           !.pc = "done", !.status = 200,
           !.headers = Headers("text/html"),
           !.persisted = Parse(tokensFile'.text),
           !.body = "<h2>Authorization complete! You can close this tab and return to Claude.</h2>"])
    /\ ServerClose(f)
    /\ UNCHANGED <<env, crashed, promise, port, stateTok, authUrl, handler,
                   timer, closed, attempts, refused, refreshVars, apiVars,
                   toolVars>>

\* saveTokens: await fs.writeFile rejects.
SaveWriteFail(f, i) ==
    /\ Alive
    /\ i \in DOMAIN reqs[f] /\ reqs[f][i].pc = "write"
    /\ WriteFileFails
    /\ Fail500(f, i)
    /\ UNCHANGED <<env, crashed, promise, port, stateTok, authUrl, handler,
                   timer, closed, attempts, refused, refreshVars, apiVars,
                   toolVars>>

\* TimerFire with a callback that closes nothing.
TimerFireNoClose(f) ==
    /\ Alive
    /\ timer[f] = "armed"
    /\ timer' = [timer EXCEPT ![f] = "fired"]
    /\ UNCHANGED <<env, crashed, fsVars, promise, listening, port, stateTok,
                   authUrl, handler, closeCalls, closed, reqs, attempts,
                   refused, refreshVars, apiVars, toolVars>>

\* The setTimeout callback: if (server.listening) server.close().
TimerFire(f) ==
    /\ Alive
    /\ timer[f] = "armed"
    /\ timer' = [timer EXCEPT ![f] = "fired"]
    /\ IF listening[f] THEN ServerClose(f)
       ELSE UNCHANGED <<closeCalls, listening>>
    /\ UNCHANGED <<env, crashed, fsVars, promise, port, stateTok, authUrl,
                   handler, closed, reqs, attempts, refused, refreshVars, apiVars,
                   toolVars>>

\* The connections of a flow that are still open: the requests whose
\* handler has not answered.
OpenRequests(f) == {i \in DOMAIN reqs[f] : reqs[f][i].pc # "done"}

\* CloseEvent with no 'close' listener clearing the timer.
CloseEventNoClear(f) ==
    /\ Alive
    /\ closeCalls[f] > 0 /\ ~listening[f] /\ ~closed[f]
    /\ closed' = [closed EXCEPT ![f] = TRUE]
    /\ UNCHANGED <<env, crashed, fsVars, promise, listening, port, stateTok,
                   authUrl, handler, timer, closeCalls, reqs, attempts,
                   refused, refreshVars, apiVars, toolVars>>

\* 'close' is emitted once the server has stopped listening and its
\* connections have ended: clearTimeout(timeout).
CloseEvent(f) ==
    /\ Alive
    /\ closeCalls[f] > 0 /\ ~listening[f] /\ ~closed[f]
    /\ OpenRequests(f) = {}
    /\ closed' = [closed EXCEPT ![f] = TRUE]
    /\ timer' = [timer EXCEPT ![f] = IF @ = "armed" THEN "cleared" ELSE @]
    /\ UNCHANGED <<env, crashed, fsVars, promise, listening, port, stateTok,
                   authUrl, handler, closeCalls, reqs, attempts, refused,
                   refreshVars, apiVars, toolVars>>

\* ------------------------------------------------ the flow specification
InitFlows ==
    /\ promise = [f \in FlowIds |-> "none"]
    /\ listening = [f \in FlowIds |-> FALSE]
    /\ port = [f \in FlowIds |-> NoPort]
    /\ stateTok = [f \in FlowIds |-> NoTok]
    /\ authUrl = [f \in FlowIds |-> [state |-> NoTok, port |-> NoPort]]
    /\ handler = [f \in FlowIds |-> FALSE]
    /\ timer = [f \in FlowIds |-> "none"]
    /\ closeCalls = [f \in FlowIds |-> 0]
    /\ closed = [f \in FlowIds |-> FALSE]
    /\ reqs = [f \in FlowIds |-> <<>>]
    /\ attempts = 0
    /\ refused = [f \in FlowIds |-> 0]

\* The file system as this version of the module leaves it: a token file
\* and its directory created by saveTokens.
OwnFs ==
    /\ fileMode = IF tokensFile.kind = "absent" THEN NoMode ELSE "0600"
    /\ dirMode = IF tokensFile.kind = "absent" THEN NoMode ELSE "0700"

Init ==
    /\ env \in [clientId : EnvVals, clientSecret : EnvVals]
    /\ tokensFile \in {NoFile, JsonFile(Rec("a0", "r0"))}
    /\ OwnFs
    /\ crashed = {}
    /\ InitFlows
    /\ clients = <<>>
    /\ events = <<>>
    /\ removals = 0
    /\ call = Idle
    /\ prev = Summary(Idle)
    /\ NoTools

\* The steps of a flow that has been started.
FlowRun(f) ==
    \/ BindError(f)
    \/ \E p \in Ports : ListenThrow(f, p)
    \/ \E p \in Ports, tok \in StateTokens : ListenOk(f, p, tok)
    \/ \E u \in ReqUrls : Receive(f, u)
    \/ \E u \in ReqUrls : Refuse(f, u)
    \/ \E i \in 1..MaxAttempts :
        \/ ExchangeOk(f, i)
        \/ ExchangeFail(f, i)
        \/ SaveMkdirOk(f, i)
        \/ SaveMkdirFail(f, i)
        \/ SaveWriteOk(f, i)
        \/ SaveWriteFail(f, i)
    \/ TimerFire(f)
    \/ CloseEvent(f)

\* The steps of one flow.
FlowStep(f) == StartAuthFlow(f) \/ FlowRun(f)

Next == \E f \in SingleFlow : FlowStep(f)

Spec == Init /\ [][Next]_vars

\* Two calls of startAuthFlow in one process, their steps interleaved.
InitTwo ==
    /\ env \in {[clientId |-> "set", clientSecret |-> "set"],
                [clientId |-> NoEnv, clientSecret |-> "set"]}
    /\ tokensFile = NoFile
    /\ OwnFs
    /\ crashed = {}
    /\ InitFlows
    /\ clients = <<>>
    /\ events = <<>>
    /\ removals = 0
    /\ call = Idle
    /\ prev = Summary(Idle)
    /\ NoTools

NextTwo ==
    /\ \E f \in FlowIds : FlowStep(f)
    /\ attempts' <= MaxAttemptsTwo

SpecTwo == InitTwo /\ [][NextTwo]_vars

\* The timer of a listening flow fires in the end, and 'close' is emitted
\* once nothing keeps the server open.
SpecLive ==
    /\ Spec
    /\ \A f \in FlowIds : WF_vars(TimerFire(f)) /\ WF_vars(CloseEvent(f))

\* ------------------------------------------------ getAuthenticatedClient
\* The clients one run of the process obtains.
MaxClients == 1

\* What a refresh response carries: a new access token and, at times, a
\* new refresh token.
RefreshResponses ==
    {Rec("b1", Missing), Rec("b2", Missing), Rec("b2", "r9")}

\* Merge that saves the refresh response alone.
MergeReplace(existing, newTokens) == newTokens

\* { ...existing, ...newTokens }: the keys of newTokens over those of
\* existing.
Merge(existing, newTokens) ==
    [k \in Fields |-> IF newTokens[k] # Missing THEN newTokens[k]
                      ELSE existing[k]]

\* await loadTokens() ?? {}
OrEmpty(loaded) == IF loaded.ok THEN loaded.rec ELSE EmptyRec

\* createOAuthClient(redirectUri) as a call record.
CreateOAuthClient(redirectUri) ==
    IF ConfigMissing(env)
    THEN [Idle EXCEPT !.op = "createOAuthClient", !.ret = "threw",
                      !.msg = ConfigErrorMessage]
    ELSE [Idle EXCEPT !.op = "createOAuthClient", !.ret = "client",
                      !.client = [NoClient EXCEPT !.id = env.clientId,
                                                  !.secret = env.clientSecret,
                                                  !.redirect = redirectUri]]

\* GetAuthenticatedClient without client.setCredentials(tokens).
GetAuthenticatedClientNoCredentials ==
    /\ Alive
    /\ call.pc = "done"
    /\ Len(clients) < MaxClients
    /\ LET tokens == LoadTokens(tokensFile)
           made == CreateOAuthClient(Missing)
       IN IF ~tokens.ok
          THEN /\ call' = [Idle EXCEPT !.op = "getAuthenticatedClient",
                                       !.ret = "null"]
               /\ UNCHANGED clients
          ELSE /\ call' = [made EXCEPT !.op = "getAuthenticatedClient"]
               /\ clients' = Append(clients, EmptyRec)
    /\ prev' = Summary(call)
    /\ UNCHANGED <<env, crashed, fsVars, flowVars, events, removals,
                   toolVars>>

\* getAuthenticatedClient: null without stored tokens; else the client
\* of createOAuthClient() (or its error) carrying the loaded record, with
\* the 'tokens' listener on.
GetAuthenticatedClient ==
    /\ Alive
    /\ call.pc = "done"
    /\ Len(clients) < MaxClients
    /\ LET tokens == LoadTokens(tokensFile)
           made == CreateOAuthClient(Missing)
       IN IF ~tokens.ok
          THEN /\ call' = [Idle EXCEPT !.op = "getAuthenticatedClient",
                                       !.ret = "null"]
               /\ UNCHANGED clients
          ELSE IF made.ret = "threw"
          THEN /\ call' = [made EXCEPT !.op = "getAuthenticatedClient"]
               /\ UNCHANGED clients
          ELSE /\ call' = [made EXCEPT !.op = "getAuthenticatedClient",
                                       !.client.credentials = tokens.rec]
               /\ clients' = Append(clients, tokens.rec)
    /\ prev' = Summary(call)
    /\ UNCHANGED <<env, crashed, fsVars, flowVars, events, removals,
                   toolVars>>

\* A refresh of some client: 'tokens' is emitted with the response and
\* the listener runs to its await of loadTokens.
EmitTokens(newTokens) ==
    /\ Alive
    /\ Len(clients) > 0
    /\ Len(events) < MaxEvents
    /\ events' = Append(events,
           [new |-> newTokens, pc |-> "load", existing |-> EmptyRec,
            merged |-> EmptyRec, persisted |-> EmptyRec])
    /\ UNCHANGED <<env, crashed, fsVars, flowVars, clients, removals, apiVars,
                   toolVars>>

\* The listener's loadTokens returns; saveTokens({...existing,
\* ...newTokens}) is called and runs to its await of fs.mkdir.
RefreshLoad(e) ==
    /\ Alive
    /\ e \in DOMAIN events /\ events[e].pc = "load"
    /\ LET existing == OrEmpty(LoadTokens(tokensFile))
       IN events' = [events EXCEPT ![e].pc = "mkdir",
                                   ![e].existing = existing,
                                   ![e].merged = Merge(existing, events[e].new)]
    /\ UNCHANGED <<env, crashed, fsVars, flowVars, clients, removals, apiVars,
                   toolVars>>

RefreshMkdirOk(e) ==
    /\ Alive
    /\ e \in DOMAIN events /\ events[e].pc = "mkdir"
    /\ events' = [events EXCEPT ![e].pc = "write"]
    /\ Mkdir
    /\ UNCHANGED <<env, crashed, flowVars, clients, removals, apiVars,
                   toolVars>>

\* saveTokens rejects inside the listener: nothing awaits the listener,
\* the rejection is unhandled.
RefreshMkdirFail(e) ==
    /\ Alive
    /\ e \in DOMAIN events /\ events[e].pc = "mkdir"
    /\ events' = [events EXCEPT ![e].pc = "failed"]
    /\ crashed' = crashed \cup {"refresh"}
    /\ UNCHANGED <<env, fsVars, flowVars, clients, removals, apiVars,
                   toolVars>>

RefreshWriteOk(e) ==
    /\ Alive
    /\ e \in DOMAIN events /\ events[e].pc = "write"
    /\ WriteFile(events[e].merged)
    /\ events' = [events EXCEPT ![e].pc = "done",
                                ![e].persisted = Parse(tokensFile'.text)]
    /\ UNCHANGED <<env, crashed, flowVars, clients, removals, apiVars,
                   toolVars>>

RefreshWriteFail(e) ==
    /\ Alive
    /\ e \in DOMAIN events /\ events[e].pc = "write"
    /\ WriteFileFails
    /\ events' = [events EXCEPT ![e].pc = "failed"]
    /\ crashed' = crashed \cup {"refresh"}
    /\ UNCHANGED <<env, flowVars, clients, removals, apiVars, toolVars>>

\* The removals of the token file in one run.
MaxRemovals == 1

\* The user removes the token file to force a new authorization.
UserRemovesFile ==
    /\ Alive
    /\ tokensFile.kind = "json"
    /\ Len(clients) > 0
    /\ removals < MaxRemovals
    /\ removals' = removals + 1
    /\ tokensFile' = NoFile
    /\ fileMode' = NoMode
    /\ UNCHANGED <<env, crashed, dirMode, flowVars, clients, events, apiVars,
                   toolVars>>

InitRefresh ==
    /\ env \in [clientId : {NoEnv, "set"}, clientSecret : {"", "set"}]
    /\ tokensFile \in {NoFile, GarbageFile, JsonFile(Rec("a0", "r0")),
                       JsonFile(Rec("a0", Missing))}
    /\ OwnFs
    /\ crashed = {}
    /\ InitFlows
    /\ clients = <<>>
    /\ events = <<>>
    /\ removals = 0
    /\ call = Idle
    /\ prev = Summary(Idle)
    /\ NoTools

NextRefresh ==
    \/ GetAuthenticatedClient
    \/ \E n \in RefreshResponses : EmitTokens(n)
    \/ \E e \in 1..MaxEvents :
        \/ RefreshLoad(e)
        \/ RefreshMkdirOk(e)
        \/ RefreshMkdirFail(e)
        \/ RefreshWriteOk(e)
        \/ RefreshWriteFail(e)
    \/ UserRemovesFile

SpecRefresh == InitRefresh /\ [][NextRefresh]_vars

\* ------------------------------------------------ the authorize tool
\* What getAuthenticatedClient gives a tool: "null", "threw" or "client".
GotClient ==
    IF ~LoadTokens(tokensFile).ok THEN "null"
    ELSE CreateOAuthClient(Missing).ret

\* The tool is invoked: its handler runs to the await of
\* getAuthenticatedClient, which waits for the token file.
AuthorizeCall ==
    /\ Alive
    /\ auth.pc \in {"idle", "done"}
    /\ auth' = [AuthIdle EXCEPT !.pc = "get"]
    /\ UNCHANGED <<env, crashed, fsVars, flowVars, refreshVars, apiVars,
                   tool, remote>>

\* getAuthenticatedClient returns: with a client the handler answers
\* 'Already authorized'; with its error the handler throws; with null it
\* calls startAuthFlow(), which runs to the return of its promise (as
\* StartAuthFlow), and awaits it.
AuthorizeGetClient(f) ==
    /\ Alive
    /\ auth.pc = "get"
    /\ IF GotClient = "null"
       THEN /\ promise[f] = "none"
            /\ \A g \in FlowIds : g < f => promise[g] # "none"
            /\ promise' = [promise EXCEPT ![f] = "pending"]
            /\ auth' = [auth EXCEPT !.pc = "flow", !.got = "null",
                                    !.started = @ + 1, !.flow = f]
       ELSE /\ auth' = [auth EXCEPT
                    !.pc = "done", !.got = GotClient,
                    !.result = IF GotClient = "client" THEN "already"
                               ELSE "error"]
            /\ UNCHANGED promise
    /\ UNCHANGED <<env, crashed, fsVars, listening, port, stateTok, authUrl,
                   handler, timer, closeCalls, closed, reqs, attempts,
                   refused, refreshVars, apiVars, tool, remote>>

\* The promise of startAuthFlow settles: the handler answers the consent
\* URL, or throws the error of the bind.
AuthorizeReturn ==
    /\ Alive
    /\ auth.pc = "flow"
    /\ promise[auth.flow] \in {"resolved", "rejected"}
    /\ auth' = IF promise[auth.flow] = "resolved"
               THEN [auth EXCEPT !.pc = "done", !.result = "url",
                                 !.url = authUrl[auth.flow]]
               ELSE [auth EXCEPT !.pc = "done", !.result = "error"]
    /\ UNCHANGED <<env, crashed, fsVars, flowVars, refreshVars, apiVars,
                   tool, remote>>

InitAuthorize ==
    /\ env \in {[clientId |-> "set", clientSecret |-> "set"],
                [clientId |-> NoEnv, clientSecret |-> "set"]}
    /\ tokensFile \in {NoFile, GarbageFile, JsonFile(Rec("a0", "r0"))}
    /\ OwnFs
    /\ crashed = {}
    /\ InitFlows
    /\ clients = <<>>
    /\ events = <<>>
    /\ removals = 0
    /\ call = Idle
    /\ prev = Summary(Idle)
    /\ NoTools

\* The flows are started by the tool alone and then run.
NextAuthorize ==
    /\ \/ AuthorizeCall
       \/ \E f \in FlowIds : AuthorizeGetClient(f)
       \/ AuthorizeReturn
       \/ \E f \in FlowIds : FlowRun(f)
    /\ attempts' <= MaxAttemptsTwo

SpecAuthorize == InitAuthorize /\ [][NextAuthorize]_vars

\* ------------------------------------------------ the Workspace operations
\* The remote API methods each operation awaits, in order.
Plan(op) ==
    CASE op \in {"listFiles", "searchFiles"} -> <<"drive.files.list">>
      [] op = "getFile" -> <<"drive.files.get">>
      [] op = "createFolder" -> <<"drive.files.create">>
      [] op = "moveFile" -> <<"drive.files.get", "drive.files.update">>
      [] op = "deleteFile" -> <<"drive.files.delete">>
      [] op = "getDoc" -> <<"docs.documents.get">>
      [] op = "createDoc" -> <<"docs.documents.create">>
      [] op = "appendToDoc" ->
            <<"docs.documents.get", "docs.documents.batchUpdate">>
      [] op \in {"replaceInDoc", "batchUpdateDoc"} ->
            <<"docs.documents.batchUpdate">>
      [] op \in {"deleteDoc", "deleteSpreadsheet"} -> <<"drive.files.update">>
      [] op = "getSheetValues" -> <<"sheets.spreadsheets.values.get">>
      [] op = "createSpreadsheet" -> <<"sheets.spreadsheets.create">>
      [] op = "updateSheetValues" -> <<"sheets.spreadsheets.values.update">>
      [] op = "appendSheetRows" -> <<"sheets.spreadsheets.values.append">>
      [] op = "clearSheetRange" -> <<"sheets.spreadsheets.values.clear">>
      [] op = "listCalendars" -> <<"calendar.calendarList.list">>
      [] op \in {"listEvents", "searchEvents"} -> <<"calendar.events.list">>
      [] op = "getEvent" -> <<"calendar.events.get">>
      [] op = "createEvent" -> <<"calendar.events.insert">>
      [] op = "updateEvent" -> <<"calendar.events.patch">>
      [] op = "deleteEvent" -> <<"calendar.events.delete">>

Operations ==
    {"listFiles", "searchFiles", "getFile", "createFolder", "moveFile",
     "deleteFile", "getDoc", "createDoc", "appendToDoc", "replaceInDoc",
     "batchUpdateDoc", "deleteDoc", "getSheetValues", "createSpreadsheet",
     "updateSheetValues", "appendSheetRows", "clearSheetRange",
     "deleteSpreadsheet", "listCalendars", "listEvents", "searchEvents",
     "getEvent", "createEvent", "updateEvent", "deleteEvent"}

\* The default of the parameter maxResults and the limits of the clamp.
DefaultMaxResults == 20
ClampLow == 1
ClampHigh == 100

Max(a, b) == IF a >= b THEN a ELSE b
Min(a, b) == IF a <= b THEN a ELSE b

\* Clamp without the lower limit.
ClampUpperOnly(n) == Min(n, ClampHigh)

\* Math.min(Math.max(maxResults, 1), 100)
Clamp(n) == Min(Max(n, ClampLow), ClampHigh)

\* maxResults = 20: the default stands in for an argument not passed.
MaxResultsOf(args) ==
    IF args.hasMax THEN args.maxResults ELSE DefaultMaxResults

\* RequestBody that skips a field whose value is falsy.
RequestBodyTruthy(updates) ==
    {<<k, Kind(k), updates[k]>> :
        k \in {x \in EventFields : updates[x] \notin {Missing, ""}}}

\* The requestBody of updateEvent: a member per field of updates that is
\* not undefined, start and end as { dateTime: value }.
RequestBody(updates) ==
    {<<k, Kind(k), updates[k]>> :
        k \in {x \in EventFields : updates[x] # Missing}}

\* The k-th request of an operation: its method and, of its parameters,
\* maxResults, requestBody and requestBody.trashed.
Request(op, k, args) ==
    LET method == Plan(op)[k]
    IN [method |-> method,
        maxResults |-> IF method = "calendar.events.list"
                       THEN Clamp(MaxResultsOf(args)) ELSE 0,
        body |-> IF method = "calendar.events.patch"
                 THEN RequestBody(args.updates) ELSE {},
        trashed |-> op \in {"deleteDoc", "deleteSpreadsheet"},
        outcome |-> "pending"]

\* What the remote API holds once it has carried out a request:
\* files.delete removes the file for good, files.update with trashed
\* moves it to the trash, events.patch replaces the fields of its body
\* and keeps the others.
Carried(req, held) ==
    CASE req.method = "drive.files.delete" -> [held EXCEPT !.file = "deleted"]
      [] req.method = "drive.files.update" /\ req.trashed ->
            [held EXCEPT !.file = "trashed"]
      [] req.method = "calendar.events.patch" ->
            [held EXCEPT !.event =
                [k \in EventFields |->
                    IF \E m \in req.body : m[1] = k
                    THEN LET m == CHOOSE m \in req.body : m[1] = k
                         IN <<m[2], m[3]>>
                    ELSE held.event[k]]]
      [] OTHER -> held

\* The message an operation returns.
Message(op) ==
    IF op \in {"deleteFile", "deleteDoc", "deleteSpreadsheet"}
    THEN "moved to trash" ELSE "done"

\* The arguments a caller passes.
MaxResultsInputs == {-3, 0, 1, 2, 20, 99, 100, 101, 250}
UpdateInputs ==
    {u \in [EventFields -> {Missing, "", "new"}] :
        \A k \in EventFields \ {"summary"} : u[k] # ""}
ArgsFor(op) ==
    IF op \in {"listEvents", "searchEvents"}
    THEN {NoArgs} \cup {[NoArgs EXCEPT !.hasMax = TRUE, !.maxResults = n] :
                            n \in MaxResultsInputs}
    ELSE IF op = "updateEvent"
    THEN {[NoArgs EXCEPT !.updates = u] : u \in UpdateInputs}
    ELSE {NoArgs}

\* An operation is called: it runs to the await of
\* getAuthenticatedClient, which waits for the token file.
ToolCall(op, args) ==
    /\ Alive
    /\ tool.pc = "done"
    /\ tool' = [ToolIdle EXCEPT !.op = op, !.pc = "get", !.args = args,
                                !.before = remote]
    /\ UNCHANGED <<env, crashed, fsVars, flowVars, refreshVars, apiVars,
                   auth, remote>>

\* getAuthenticatedClient returns: without a client the operation throws
\* 'Not authenticated...' (or the configuration error); with one it
\* sends its first request and awaits it.
ToolGetClient ==
    /\ Alive
    /\ tool.pc = "get"
    /\ tool' =
        CASE GotClient = "null" ->
               [tool EXCEPT !.pc = "done", !.got = "null", !.result = "error",
                    !.msg = "Not authenticated. Call the authorize tool first."]
          [] GotClient = "threw" ->
               [tool EXCEPT !.pc = "done", !.got = "threw", !.result = "error",
                    !.msg = ConfigErrorMessage]
          [] OTHER ->
               [tool EXCEPT !.pc = "api", !.got = "client",
                    !.log = <<Request(tool.op, 1, tool.args)>>]
    /\ UNCHANGED <<env, crashed, fsVars, flowVars, refreshVars, apiVars,
                   auth, remote>>

\* The request awaited resolves: the remote API has carried it out; the
\* operation sends its next request, or returns its message.
ApiOk ==
    /\ Alive
    /\ tool.pc = "api"
    /\ LET n == Len(tool.log)
           req == tool.log[n]
           answered == [tool.log EXCEPT ![n].outcome = "ok"]
       IN /\ req.method = "drive.files.delete" => remote.file # "deleted"
          /\ remote' = Carried(req, remote)
          /\ tool' =
                IF n < Len(Plan(tool.op))
                THEN [tool EXCEPT !.log = Append(answered,
                                      Request(tool.op, n + 1, tool.args))]
                ELSE [tool EXCEPT !.log = answered, !.pc = "done",
                                  !.result = "ok", !.msg = Message(tool.op)]
    /\ UNCHANGED <<env, crashed, fsVars, flowVars, refreshVars, apiVars,
                   auth>>

\* ApiFail that sends the failed request once more.
ApiFailRetry ==
    /\ Alive
    /\ tool.pc = "api"
    /\ LET n == Len(tool.log)
       IN tool' = [tool EXCEPT
                      !.log = Append([tool.log EXCEPT ![n].outcome = "err"],
                                     Request(tool.op, n, tool.args))]
    /\ UNCHANGED <<env, crashed, fsVars, flowVars, refreshVars, apiVars,
                   auth, remote>>

\* The request awaited rejects: the operation throws that error.
ApiFail ==
    /\ Alive
    /\ tool.pc = "api"
    /\ LET n == Len(tool.log)
       IN tool' = [tool EXCEPT !.log[n].outcome = "err", !.pc = "done",
                               !.result = "error", !.msg = "api error"]
    /\ UNCHANGED <<env, crashed, fsVars, flowVars, refreshVars, apiVars,
                   auth, remote>>

InitTools ==
    /\ env \in {[clientId |-> "set", clientSecret |-> "set"],
                [clientId |-> NoEnv, clientSecret |-> "set"]}
    /\ tokensFile \in {NoFile, JsonFile(Rec("a0", "r0"))}
    /\ OwnFs
    /\ crashed = {}
    /\ InitFlows
    /\ clients = <<>>
    /\ events = <<>>
    /\ removals = 0
    /\ call = Idle
    /\ prev = Summary(Idle)
    /\ NoTools

NextTools ==
    \/ \E op \in Operations : \E args \in ArgsFor(op) : ToolCall(op, args)
    \/ ToolGetClient
    \/ ApiOk
    \/ ApiFail

SpecTools == InitTools /\ [][NextTools]_vars

\* ------------------------------------------------ the token store
\* The records a caller saves.
StoreRecords == {Rec("tok", "ref"), Rec("tok2", Missing), EmptyRec}

RedirectUris == {Missing, "http://127.0.0.1:p1/callback"}

\* CallLoadTokens without the catch: a failed read or parse is thrown.
CallLoadTokensNoCatch ==
    /\ Alive
    /\ call.pc = "done"
    /\ LET tokens == LoadTokens(tokensFile)
       IN call' = [Idle EXCEPT !.op = "loadTokens",
                               !.ret = IF tokens.ok THEN "record" ELSE "threw",
                               !.val = tokens.rec]
    /\ prev' = Summary(call)
    /\ UNCHANGED <<env, crashed, fsVars, flowVars, refreshVars, toolVars>>

\* await loadTokens()
CallLoadTokens ==
    /\ Alive
    /\ call.pc = "done"
    /\ LET tokens == LoadTokens(tokensFile)
       IN call' = [Idle EXCEPT !.op = "loadTokens",
                               !.ret = IF tokens.ok THEN "record" ELSE "null",
                               !.val = tokens.rec,
                               !.fs = IF tokensFile.kind \in
                                             {"absent", "unreadable"}
                                       THEN <<"readFile:err">>
                                       ELSE <<"readFile:ok">>]
    /\ prev' = Summary(call)
    /\ UNCHANGED <<env, crashed, fsVars, flowVars, refreshVars, toolVars>>

\* createOAuthClient(redirectUri)
CallCreateOAuthClient(redirectUri) ==
    /\ Alive
    /\ call.pc = "done"
    /\ call' = CreateOAuthClient(redirectUri)
    /\ prev' = Summary(call)
    /\ UNCHANGED <<env, crashed, fsVars, flowVars, refreshVars, toolVars>>

\* saveTokens(tokens) is called and runs to its await of fs.mkdir.
CallSaveTokens(tokens) ==
    /\ Alive
    /\ call.pc = "done"
    /\ call' = [Idle EXCEPT !.op = "saveTokens", !.pc = "mkdir",
                            !.arg = tokens]
    /\ prev' = Summary(call)
    /\ UNCHANGED <<env, crashed, fsVars, flowVars, refreshVars, toolVars>>

\* await fs.mkdir resolves; fs.writeFile is called.
StoreMkdirOk ==
    /\ Alive
    /\ call.op = "saveTokens" /\ call.pc = "mkdir"
    /\ Mkdir
    /\ call' = [call EXCEPT !.pc = "write", !.fs = Append(@, "mkdir:ok")]
    /\ UNCHANGED <<env, crashed, flowVars, refreshVars, prev, toolVars>>

\* StoreMkdirFail with the error swallowed: saveTokens goes on to write.
StoreMkdirFailSwallowed ==
    /\ Alive
    /\ call.op = "saveTokens" /\ call.pc = "mkdir"
    /\ call' = [call EXCEPT !.pc = "write", !.fs = Append(@, "mkdir:err")]
    /\ UNCHANGED <<env, crashed, fsVars, flowVars, refreshVars, prev,
                   toolVars>>

\* await fs.mkdir rejects: saveTokens rejects with that error.
StoreMkdirFail ==
    /\ Alive
    /\ call.op = "saveTokens" /\ call.pc = "mkdir"
    /\ call' = [call EXCEPT !.pc = "done", !.ret = "rejected",
                            !.msg = "mkdir failed",
                            !.fs = Append(@, "mkdir:err")]
    /\ UNCHANGED <<env, crashed, fsVars, flowVars, refreshVars, prev,
                   toolVars>>

\* await fs.writeFile resolves: saveTokens resolves.
StoreWriteOk ==
    /\ Alive
    /\ call.op = "saveTokens" /\ call.pc = "write"
    /\ WriteFile(call.arg)
    /\ call' = [call EXCEPT !.pc = "done", !.ret = "resolved",
                            !.fs = Append(@, "writeFile:ok")]
    /\ UNCHANGED <<env, crashed, flowVars, refreshVars, prev, toolVars>>

\* await fs.writeFile rejects: saveTokens rejects with that error.
StoreWriteFail ==
    /\ Alive
    /\ call.op = "saveTokens" /\ call.pc = "write"
    /\ WriteFileFails
    /\ call' = [call EXCEPT !.pc = "done", !.ret = "rejected",
                            !.msg = "writeFile failed",
                            !.fs = Append(@, "writeFile:err")]
    /\ UNCHANGED <<env, crashed, flowVars, refreshVars, prev, toolVars>>

\* The file system a call can meet: nothing there, or a directory and a
\* file left by this version, by an older one or by the user.
InitStore ==
    /\ env \in [clientId : EnvVals, clientSecret : EnvVals]
    /\ \/ tokensFile = NoFile /\ fileMode = NoMode
          /\ dirMode \in {NoMode} \cup DirModes
       \/ /\ tokensFile \in {UnreadableFile, EmptyFile, GarbageFile,
                              JsonFile(Rec("a0", "r0"))}
          /\ fileMode \in FileModes
          /\ dirMode \in DirModes
    /\ crashed = {}
    /\ InitFlows
    /\ clients = <<>>
    /\ events = <<>>
    /\ removals = 0
    /\ call = Idle
    /\ prev = Summary(Idle)
    /\ NoTools

NextStore ==
    \/ CallLoadTokens
    \/ \E tokens \in StoreRecords : CallSaveTokens(tokens)
    \/ StoreMkdirOk
    \/ StoreMkdirFail
    \/ StoreWriteOk
    \/ StoreWriteFail
    \/ \E uri \in RedirectUris : CallCreateOAuthClient(uri)
    \/ GetAuthenticatedClient

SpecStore == InitStore /\ [][NextStore]_vars

\* ================================================================ claims
AllReqs == {<<f, i>> : f \in FlowIds, i \in 1..MaxAttempts}
Handled == {x \in AllReqs : x[2] \in DOMAIN reqs[x[1]]}
R(x) == reqs[x[1]][x[2]]
\* A /callback request that carries the state token of its flow.
RightState(x) ==
    R(x).url.path = "/callback" /\ R(x).url.state = stateTok[x[1]]
\* The listener of flow f has been closed.
ListenerClosed(f) == ~listening[f] /\ closeCalls[f] >= 1

\* C1: a /callback request whose state parameter is absent or is not the
\* flow's state token is answered 403 at once, and its handler calls
\* neither the token exchange nor saveTokens and writes nothing.
C1_StateMismatchRejected ==
    \A x \in Handled :
        (R(x).url.path = "/callback" /\ R(x).url.state # stateTok[x[1]])
        => /\ R(x).pc = "done" /\ R(x).status = 403
           /\ R(x).exch = 0 /\ R(x).saves = 0
           /\ R(x).persisted = EmptyRec

C1_Witness ==
    \E x \in Handled :
        /\ R(x).url.path = "/callback"
        /\ R(x).url.state \in StateTokens \ {stateTok[x[1]]}
        /\ R(x).url.code \in Codes
        /\ R(x).status = 403

\* C2: a /callback request with the right state and a code whose
\* exchange and save both succeeded has called the exchange once and
\* saveTokens once with the exchanged tokens, is answered 200, and the
\* listener is closed; and a 200 is answered to no other request.
C2_ValidCallbackSavesOnce ==
    \A x \in Handled :
        /\ (/\ RightState(x) /\ R(x).url.code \in Codes /\ R(x).pc = "done"
            /\ R(x).tokens # EmptyRec /\ R(x).persisted # EmptyRec)
           => R(x).status = 200
        /\ R(x).status = 200
           => /\ RightState(x) /\ R(x).url.code \in Codes
              /\ R(x).exch = 1 /\ R(x).saves = 1
              /\ R(x).tokens = Rec("at_" \o R(x).url.code,
                                   "rt_" \o R(x).url.code)
              /\ R(x).persisted = R(x).tokens
              /\ ListenerClosed(x[1])

C2_Witness ==
    \E x \in Handled :
        /\ R(x).status = 200 /\ R(x).url.code = "c2"
        /\ tokensFile = JsonFile(Rec("at_c2", "rt_c2"))
        /\ ListenerClosed(x[1])

\* C3: a flow accepts its state token at most once: at most one of its
\* requests reaches the token exchange and at most one reaches the save.
C3_StateTokenSingleUse ==
    \A f \in FlowIds :
        /\ Cardinality({i \in DOMAIN reqs[f] : reqs[f][i].exch > 0}) <= 1
        /\ Cardinality({i \in DOMAIN reqs[f] : reqs[f][i].saves > 0}) <= 1

\* C4: a request rejected with 403 or 400 closes the listener: the flow
\* listens no more and handles no later request.
C4_RejectionClosesListener ==
    \A x \in Handled :
        R(x).status \in {403, 400}
        => ListenerClosed(x[1]) /\ x[2] = Len(reqs[x[1]])

\* C5: a /callback request with the right state and no code, or an empty
\* one, is answered 400 and calls neither the exchange nor saveTokens.
C5_MissingCodeRejected ==
    \A x \in Handled :
        (RightState(x) /\ R(x).url.code \in {NoParam, ""})
        => /\ R(x).pc = "done" /\ R(x).status = 400
           /\ R(x).exch = 0 /\ R(x).saves = 0
           /\ R(x).persisted = EmptyRec

C5_Witness ==
    \E x \in Handled, y \in Handled :
        /\ RightState(x) /\ R(x).url.code = "" /\ R(x).status = 400
        /\ RightState(y) /\ R(y).url.code = NoParam /\ R(y).status = 400

\* C6: a request whose token exchange failed is answered 500 with the
\* fixed message, has not called saveTokens nor written the file, and
\* the listener is closed.
ExchangeFailed(x) ==
    R(x).pc = "done" /\ R(x).exch = 1 /\ R(x).tokens = EmptyRec
C6_ExchangeFailure ==
    \A x \in Handled :
        ExchangeFailed(x)
        => /\ R(x).status = 500
           /\ R(x).body = "Authorization failed. Please try again."
           /\ R(x).saves = 0 /\ R(x).persisted = EmptyRec
           /\ ListenerClosed(x[1])

C6_Witness ==
    \E x \in Handled :
        /\ ExchangeFailed(x) /\ R(x).status = 500
        /\ tokensFile = JsonFile(Rec("a0", "r0"))

\* C7: once the timer has fired with no valid callback received, the
\* listener is closed (by that one close), and from then on no request
\* is handled by the flow and the flow changes nothing in the token
\* file; requests rejected before the timer fired did not stop it.
NoValidCallback(f) == \A i \in DOMAIN reqs[f] : reqs[f][i].exch = 0
TimedOut(f) == timer[f] = "fired" /\ NoValidCallback(f)
C8_RefreshKeepsRefreshToken ==
    \A e \in DOMAIN events :
        LET ev == events[e] IN
        /\ (ev.pc # "load" /\ ev.new["refresh_token"] = Missing)
           => /\ ev.merged["refresh_token"] = ev.existing["refresh_token"]
              /\ \A k \in Fields :
                    ev.new[k] # Missing => ev.merged[k] = ev.new[k]
        /\ ev.pc = "done" => ev.persisted = ev.merged

C8_Witness ==
    \E e \in DOMAIN events :
        /\ events[e].pc = "done"
        /\ events[e].existing = Rec("a0", "r0")
        /\ events[e].new = Rec("b1", Missing)
        /\ events[e].persisted = Rec("b1", "r0")
        /\ tokensFile = JsonFile(Rec("b1", "r0"))

\* C9: two refresh events handled concurrently against the same file
\* (each loaded the record before the other wrote) leave the record that
\* applying their two merges one after the other, in some order, to the
\* record they loaded gives.
C9_RefreshSerialized ==
    (/\ Len(events) = 2 /\ removals = 0
     /\ events[1].pc = "done" /\ events[2].pc = "done"
     /\ events[1].existing = events[2].existing)
    => LET base == events[1].existing
           n1 == events[1].new
           n2 == events[2].new
       IN tokensFile \in {JsonFile(Merge(Merge(base, n1), n2)),
                          JsonFile(Merge(Merge(base, n2), n1))}

\* C10: started with the client identifier or secret missing,
\* startAuthFlow rejects with the configuration error, nothing is thrown
\* outside the call and no listener stays bound.
C10_ConfigErrorSurfaced ==
    \A f \in FlowIds :
        (ConfigMissing(env) /\ port[f] # NoPort)
        => promise[f] = "rejected" /\ crashed = {} /\ ~listening[f]

\* C11: server.close() is requested at most once on the listener of a
\* flow: never on a listener that has been closed already.
C11_ClosedExactlyOnce ==
    \A f \in FlowIds : closeCalls[f] <= 1

\* C12 as stated: once the listener of a flow has been closed
\* (server.close() was called), its timer does not fire.
C12_TimerNeverFiresOnceClosed ==
    [][\A f \in FlowIds :
        ListenerClosed(f) => (timer'[f] = "fired" => timer[f] = "fired")]_vars

\* C12 as amended: the timer is cancelled when 'close' is emitted, that
\* is once the server has stopped listening and its connections have
\* ended, and from then on it never fires; a timer that fires between
\* server.close() and that event performs no close.
C12_TimerClearedOnCloseEvent ==
    /\ [](\A f \in FlowIds : closed[f] => timer[f] \in {"cleared", "fired"})
    /\ [][\A f \in FlowIds :
            /\ closed[f] => timer'[f] = timer[f] /\ closeCalls'[f] = closeCalls[f]
            /\ (~listening[f] /\ timer[f] = "armed" /\ timer'[f] = "fired")
               => closeCalls'[f] = closeCalls[f]]_vars

C12_Witness ==
    \E f \in FlowIds :
        /\ closed[f] /\ timer[f] = "fired" /\ closeCalls[f] = 1
        /\ \E i \in DOMAIN reqs[f] : reqs[f][i].status = 200

\* C13: every flow whose listener is bound stops listening in the end.
C13_EveryFlowCloses ==
    \A f \in FlowIds : listening[f] ~> ~listening[f]

\* The listener of a flow accepts connections: the server is listening
\* and its process runs.
Serving(f) == listening[f] /\ Alive

\* What one flow holds.
FlowState(f) ==
    <<promise[f], listening[f], port[f], stateTok[f], authUrl[f], handler[f],
      timer[f], closeCalls[f], closed[f], reqs[f], refused[f]>>

\* The ports and the state tokens of two flows differ, and a callback
\* that carries the state token of the other flow is answered 403 and
\* exchanges nothing.
TwoFlowsApart ==
    \A f \in FlowIds : \A g \in FlowIds \ {f} :
        /\ (listening[f] /\ listening[g]) => port[f] # port[g]
        /\ (stateTok[f] # NoTok /\ stateTok[g] # NoTok)
           => stateTok[f] # stateTok[g]
        /\ \A i \in DOMAIN reqs[f] :
            (/\ reqs[f][i].url.path = "/callback"
             /\ stateTok[g] # NoTok
             /\ reqs[f][i].url.state = stateTok[g])
            => reqs[f][i].status = 403 /\ reqs[f][i].exch = 0

\* C14: two concurrent flows listen on distinct ports with distinct
\* state tokens, a callback carrying the token of the other flow is
\* answered 403, and a step of one flow (a close, a failure, a timeout)
\* leaves the listener, the timer and the state token of the other flow
\* as they were.
C14_FlowsDoNotInterfere ==
    /\ []TwoFlowsApart
    /\ [][\A f \in FlowIds : \A g \in FlowIds \ {f} :
            FlowState(f)' # FlowState(f)
            => /\ Serving(g)' = Serving(g)
               /\ timer'[g] = timer[g]
               /\ stateTok'[g] = stateTok[g]]_vars

\* C15: loadTokens never throws: it returns null when the token file is
\* absent, unreadable, empty or not JSON, and otherwise the record whose
\* JSON text the file holds.
C15_LoadTokensNeverFails ==
    call.op = "loadTokens"
    => /\ crashed = {}
       /\ IF tokensFile.kind \in {"absent", "unreadable", "empty", "garbage"}
          THEN call.ret = "null"
          ELSE /\ call.ret = "record"
               /\ Stringify(call.val) = tokensFile.text

C15_Witness ==
    /\ call.op = "loadTokens" /\ call.ret = "null"
    /\ tokensFile.kind = "garbage"

\* C16: loadTokens right after a saveTokens(r) that resolved returns a
\* record equal to r.
C16_SaveLoadRoundTrip ==
    (call.op = "loadTokens" /\ prev.op = "saveTokens" /\ prev.ret = "resolved")
    => call.ret = "record" /\ call.val = prev.arg

\* The round trip of a record over a file an older version left.
C16_Witness ==
    /\ call.op = "loadTokens" /\ call.ret = "record"
    /\ prev.op = "saveTokens" /\ prev.ret = "resolved"
    /\ prev.arg = Rec("tok", "ref")
    /\ fileMode = "0644"

\* C17: saveTokens awaits mkdir and then writeFile; it resolves exactly
\* when both resolved, the file then holding the JSON text of its
\* argument; a rejected mkdir or writeFile rejects saveTokens with that
\* error, and after a rejected mkdir no writeFile is made.
C17_SaveTokensPropagates ==
    call.op = "saveTokens"
    => /\ call.fs \in {<<>>, <<"mkdir:ok">>, <<"mkdir:err">>,
                       <<"mkdir:ok", "writeFile:ok">>,
                       <<"mkdir:ok", "writeFile:err">>}
       /\ (call.ret = "resolved") = (call.fs = <<"mkdir:ok", "writeFile:ok">>)
       /\ call.ret = "resolved" => tokensFile.text = Stringify(call.arg)
       /\ call.fs = <<"mkdir:err">>
          => call.ret = "rejected" /\ call.msg = "mkdir failed"
       /\ call.fs = <<"mkdir:ok", "writeFile:err">>
          => call.ret = "rejected" /\ call.msg = "writeFile failed"
       /\ crashed = {}

C17_Witness ==
    /\ call.op = "saveTokens" /\ call.ret = "rejected"
    /\ call.fs = <<"mkdir:err">>

\* C18: after a saveTokens that resolved the token file has mode 0600
\* and its directory mode 0700.
C18_OwnerOnlyAfterSave ==
    (call.op = "saveTokens" /\ call.ret = "resolved")
    => fileMode = "0600" /\ dirMode = "0700"

\* C19: createOAuthClient throws the error naming both variables when
\* GOOGLE_CLIENT_ID or GOOGLE_CLIENT_SECRET is unset or empty, and
\* otherwise returns a client of these two values, with no I/O.
C19_CreateOAuthClient ==
    call.op = "createOAuthClient"
    => /\ call.fs = <<>>
       /\ IF env.clientId = "set" /\ env.clientSecret = "set"
          THEN /\ call.ret = "client"
               /\ call.client.id = "set" /\ call.client.secret = "set"
          ELSE /\ call.ret = "threw"
               /\ call.msg =
                  "GOOGLE_CLIENT_ID and GOOGLE_CLIENT_SECRET env vars are required"

C19_Witness ==
    /\ call.op = "createOAuthClient" /\ call.ret = "threw"
    /\ env.clientId = "set" /\ env.clientSecret = ""

\* C20: with the configuration set, getAuthenticatedClient returns null
\* exactly when the token file gives loadTokens nothing, and otherwise a
\* client whose credentials are the record of the file: after
\* saveTokens({access_token: "tok", refresh_token: "ref"}) the client
\* carries access_token "tok".
C20_GetAuthenticatedClient ==
    (call.op = "getAuthenticatedClient"
     /\ env.clientId = "set" /\ env.clientSecret = "set")
    => /\ call.ret \in {"null", "client"}
       /\ (call.ret = "null") = (tokensFile.kind # "json")
       /\ call.ret = "client"
          => Stringify(call.client.credentials) = tokensFile.text
       /\ (/\ prev.op = "saveTokens" /\ prev.ret = "resolved"
           /\ prev.arg = Rec("tok", "ref"))
          => /\ call.ret = "client"
             /\ call.client.credentials["access_token"] = "tok"

C20_Witness ==
    /\ call.op = "getAuthenticatedClient" /\ call.ret = "client"
    /\ prev.op = "saveTokens" /\ prev.ret = "resolved"
    /\ prev.arg = Rec("tok", "ref")
    /\ call.client.credentials = Rec("tok", "ref")

\* C21: the promise of startAuthFlow is resolved by the listen callback,
\* with the server listening, the request handler on, the timer armed
\* and no request handled yet, and the URL it resolves with carries the
\* state token and the port the listener holds.
C21_UrlReturnedAtOnce ==
    /\ [](\A f \in FlowIds :
            promise[f] = "resolved"
            => /\ stateTok[f] \in StateTokens
               /\ authUrl[f] = [state |-> stateTok[f], port |-> port[f]])
    /\ [][\A f \in FlowIds :
            (promise[f] # "resolved" /\ promise'[f] = "resolved")
            => /\ listening'[f] /\ handler'[f] /\ timer'[f] = "armed"
               /\ reqs'[f] = <<>>
               /\ tokensFile' = tokensFile]_vars

C21_Witness ==
    \E f \in FlowIds :
        /\ promise[f] = "resolved" /\ reqs[f] = <<>> /\ attempts = 0
        /\ listening[f] /\ timer[f] = "armed"
        /\ authUrl[f].state = stateTok[f]

\* Every response sent carries X-Content-Type-Options: nosniff and the
\* Content-Security-Policy default-src 'none'.
ResponsesHardened ==
    \A x \in Handled :
        R(x).status # 0
        => /\ R(x).status \in {200, 400, 403, 404, 500}
           /\ <<"X-Content-Type-Options", "nosniff">> \in R(x).headers
           /\ <<"Content-Security-Policy", "default-src 'none'">> \in R(x).headers

\* C22: every response carries the two security headers, and a request
\* to a path other than /callback is answered 404 with them and reaches
\* neither the exchange nor the save.
C22_HardenedResponses ==
    /\ ResponsesHardened
    /\ \A x \in Handled :
        R(x).url.path # "/callback"
        => /\ R(x).status = 404
           /\ R(x).exch = 0 /\ R(x).saves = 0

\* C23: no request makes its handler throw outside the handler: every
\* request handled is answered, or is still waiting for its exchange or
\* its save, and the process keeps running.
C23_NoFailureEscapes ==
    /\ \A x \in Handled : R(x).pc # "threw"
    /\ "url" \notin crashed

\* The status the ordered checks give a request that has been answered:
\* the path, then the state, then the code, then the outcome of the
\* exchange and the save.
StatusInOrder(x) ==
    LET u == R(x).url
    IN IF u.path # "/callback" THEN R(x).status = 404 /\ R(x).exch = 0
       ELSE IF u.state # stateTok[x[1]] THEN R(x).status = 403
       ELSE IF u.code \in {NoParam, ""} THEN R(x).status = 400
       ELSE /\ R(x).status \in {200, 500}
            /\ (R(x).status = 200)
               = (R(x).tokens # EmptyRec /\ R(x).persisted = R(x).tokens)

\* C27: every request is answered with the status the ordered checks
\* give: 404 for a path other than /callback whatever its state and
\* code, else 403 for a wrong or missing state whatever its code, else
\* 400 for a missing code, else 200 or 500 once the exchange and the save
\* have ended.
C27_StatusOrder ==
    \A x \in Handled :
        \/ StatusInOrder(x)
        \/ /\ R(x).pc \in {"exchange", "mkdir", "write"}
           /\ R(x).status = 0
           /\ RightState(x) /\ R(x).url.code \in Codes

\* The same over the requests that were answered.
AnsweredInOrder ==
    \A x \in Handled : R(x).status # 0 => StatusInOrder(x)

\* The exchange of request x succeeded and its save failed.
SaveFailed(x) ==
    R(x).pc = "done" /\ R(x).tokens # EmptyRec /\ R(x).saves = 1
    /\ R(x).persisted = EmptyRec

\* C28: a 200 is answered only by a request whose saveTokens resolved
\* for the tokens its exchange gave; a request whose exchange succeeded
\* and whose save failed is answered 500, the listener is closed, and no
\* request of that flow is answered 200.
C28_SuccessOnlyAfterSave ==
    \A x \in Handled :
        /\ R(x).status = 200
           => R(x).tokens # EmptyRec /\ R(x).persisted = R(x).tokens
        /\ SaveFailed(x)
           => /\ R(x).status = 500
              /\ ListenerClosed(x[1])
              /\ \A i \in DOMAIN reqs[x[1]] : reqs[x[1]][i].status # 200

\* The part of C28 that concerns the one request.
SaveFailureAnswered500 ==
    \A x \in Handled :
        /\ R(x).status = 200
           => R(x).tokens # EmptyRec /\ R(x).persisted = R(x).tokens
        /\ SaveFailed(x) => R(x).status = 500 /\ ListenerClosed(x[1])

\* The invocation of authorize that got null has called startAuthFlow
\* once, and either still waits for the bind, or the bind failed and it
\* threw that error, or it answers the consent URL of the flow it
\* started.
ReturnsItsUrl ==
    auth.got = "null"
    => /\ auth.started = 1
       /\ LET f == auth.flow
          IN \/ auth.pc = "flow" /\ promise[f] = "pending" /\ port[f] = NoPort
             \/ auth.pc = "flow" /\ promise[f] \in {"resolved", "rejected"}
             \/ auth.result = "error" /\ promise[f] = "rejected"
             \/ /\ auth.result = "url" /\ promise[f] = "resolved"
                /\ auth.url = authUrl[f]

\* A flow is started by an invocation that got null and by no other,
\* and the invocation that got a client answers 'Already authorized'
\* and changes nothing in the flows.
StartsOnlyWithoutTokens ==
    /\ [](/\ auth.got = "client"
             => auth.result = "already" /\ auth.started = 0
          /\ auth.result = "already" => auth.got = "client"
          /\ auth.started > 0 => auth.got = "null" /\ auth.started = 1)
    /\ [][(auth'.result = "already" /\ auth.result # "already")
           => UNCHANGED flowVars]_vars

\* C29: the authorize tool that gets a client answers 'Already
\* authorized' and binds no listener, draws no state token and arms no
\* timer; the one that gets null starts exactly one flow and answers the
\* consent URL of that flow.
C29_AuthorizeGates ==
    /\ StartsOnlyWithoutTokens
    /\ []ReturnsItsUrl

\* C24: after deleteFile returned, the Drive file is in the trash, as
\* its message 'moved to trash' says.
C24_DeleteMovesToTrash ==
    (tool.op = "deleteFile" /\ tool.result = "ok")
    => tool.msg = "moved to trash" /\ remote.file = "trashed"

\* C25: an operation that got no client throws 'Not authenticated...'
\* and has sent nothing; requests are sent only with a client, each
\* method at most once, and none after a request that failed.
C25_AuthFirstNoRetry ==
    /\ tool.got = "null"
       => /\ tool.result = "error" /\ tool.log = <<>>
          /\ tool.msg = "Not authenticated. Call the authorize tool first."
    /\ tool.log # <<>> => tool.got = "client"
    /\ \A i \in DOMAIN tool.log :
        /\ \A j \in DOMAIN tool.log :
               i # j => tool.log[i].method # tool.log[j].method
        /\ tool.log[i].outcome = "err"
           => i = Len(tool.log) /\ tool.result = "error"

C25_Witness ==
    /\ tool.op = "moveFile" /\ tool.result = "error"
    /\ Len(tool.log) = 2 /\ tool.log[2].outcome = "err"

\* C26: updateEvent sends one patch whose body has a member for each
\* field supplied, start and end as { dateTime: value }, and none for a
\* field not supplied; once it returned, the event has the values
\* supplied and keeps the others.
C26_PatchBody ==
    (tool.op = "updateEvent" /\ tool.log # <<>>)
    => LET u == tool.args.updates
           body == tool.log[1].body
       IN /\ Len(tool.log) = 1
          /\ tool.log[1].method = "calendar.events.patch"
          /\ \A k \in EventFields :
                IF u[k] = Missing
                THEN /\ \A m \in body : m[1] # k
                     /\ tool.result = "ok"
                        => remote.event[k] = tool.before.event[k]
                ELSE LET wrap == IF k \in {"start", "end"} THEN "dateTime"
                                 ELSE "plain"
                     IN /\ {m \in body : m[1] = k} = {<<k, wrap, u[k]>>}
                        /\ tool.result = "ok"
                           => remote.event[k] = <<wrap, u[k]>>

C26_Witness ==
    /\ tool.op = "updateEvent" /\ tool.result = "ok"
    /\ tool.args.updates["summary"] = ""
    /\ tool.args.updates["start"] = "new"
    /\ tool.args.updates["location"] = Missing
    /\ tool.before.event["summary"] = <<"plain", "new">>

\* C30: the maxResults that listEvents and searchEvents send is the
\* argument brought into 1..100, and 20 when none was passed.
C30_MaxResultsClamped ==
    (tool.op \in {"listEvents", "searchEvents"} /\ tool.log # <<>>)
    => LET n == tool.args.maxResults
           sent == tool.log[1].maxResults
       IN /\ sent \in 1..100
          /\ ~tool.args.hasMax => sent = 20
          /\ tool.args.hasMax
             => /\ n < 1 => sent = 1
                /\ n > 100 => sent = 100
                /\ n \in 1..100 => sent = n

C30_Witness ==
    /\ tool.op = "searchEvents" /\ tool.result = "ok"
    /\ tool.args.hasMax /\ tool.args.maxResults = -3
    /\ tool.log[1].maxResults = 1

====
